---- MODULE Spec2Model ----
(***************************************************************************)
(* Model of the avionics system simulator: SensorProcessor, FlightController,*)
(* FaultHandler and the SystemMonitor control loop that ticks them.         *)
(*                                                                          *)
(* Representation of the C++ doubles:                                       *)
(*  - telemetry (altitude, airspeed, pressure, verticalSpeed) is an integer *)
(*    count of 1/Scale units, Scale being a common multiple of every window *)
(*    length 1..FILTER_WINDOW_SIZE, so that every moving average is exact;  *)
(*  - control surfaces are integers in hundredths (0.15 is 15);             *)
(*  - simulated time and the steady clock are integer milliseconds.         *)
(***************************************************************************)
EXTENDS Integers, Sequences, FiniteSets, TLC

\* ------------------------------------------------------------------------
\* Number representation
\* ------------------------------------------------------------------------
FILTER_WINDOW_SIZE == 5

Scale == 3 * 4 * FILTER_WINDOW_SIZE

\* the double with whole value x, in telemetry units
D(x) == x * Scale

Abs(x) == IF x < 0 THEN 0 - x ELSE x

Clamp(v, lo, hi) == IF v < lo THEN lo ELSE IF v > hi THEN hi ELSE v

\* F(v), with v computed once
Once(v, F(_)) == CHOOSE r \in {F(x) : x \in {v}} : TRUE

\* ------------------------------------------------------------------------
\* FlightController
\* ------------------------------------------------------------------------
FlightPhase ==
  {"PREFLIGHT", "TAKEOFF", "CLIMB", "CRUISE", "DESCENT", "APPROACH",
   "LANDING", "EMERGENCY"}

ControlSurfaces(e, a, r, t) ==
  [elevator |-> e, aileron |-> a, rudder |-> r, throttle |-> t]

\* FlightController::FlightController(), clock reading t
FlightController_ctor(t) ==
  [currentPhase_ |-> "PREFLIGHT", previousPhase_ |-> "PREFLIGHT",
   phaseStartTime_ |-> t, controls_ |-> ControlSurfaces(0, 0, 0, 0)]

\* FlightController::initialize(): previousPhase_ is left as it is
FlightController_initialize(fc, t) ==
  [fc EXCEPT !.currentPhase_ = "PREFLIGHT", !.phaseStartTime_ = t,
             !.controls_ = ControlSurfaces(0, 0, 0, 0)]

transitionToPhase(fc, newPhase, t) ==
  IF newPhase # fc.currentPhase_
    THEN [fc EXCEPT !.previousPhase_ = fc.currentPhase_,
                    !.currentPhase_ = newPhase,
                    !.phaseStartTime_ = t]
    ELSE fc

\* targets whose PREFLIGHT case commands 60 % throttle
PhaseTargets_preflightPower(phase) ==
  CASE phase = "PREFLIGHT" -> [throttle |-> 60,  elevator |-> 0]
    [] phase = "TAKEOFF"   -> [throttle |-> 100, elevator |-> 15]
    [] phase = "CLIMB"     -> [throttle |-> 90,  elevator |-> 10]
    [] phase = "CRUISE"    -> [throttle |-> 70,  elevator |-> 0]
    [] phase = "DESCENT"   -> [throttle |-> 40,  elevator |-> 0 - 5]
    [] phase = "APPROACH"  -> [throttle |-> 30,  elevator |-> 0 - 8]
    [] phase = "LANDING"   -> [throttle |-> 10,  elevator |-> 0 - 10]
    [] phase = "EMERGENCY" -> [throttle |-> 50,  elevator |-> 0]

\* the (throttle, elevator) assignments of the switch, before the clamp
PhaseTargets(phase) ==
  CASE phase = "PREFLIGHT" -> [throttle |-> 0,   elevator |-> 0]
    [] phase = "TAKEOFF"   -> [throttle |-> 100, elevator |-> 15]
    [] phase = "CLIMB"     -> [throttle |-> 90,  elevator |-> 10]
    [] phase = "CRUISE"    -> [throttle |-> 70,  elevator |-> 0]
    [] phase = "DESCENT"   -> [throttle |-> 40,  elevator |-> 0 - 5]
    [] phase = "APPROACH"  -> [throttle |-> 30,  elevator |-> 0 - 8]
    [] phase = "LANDING"   -> [throttle |-> 10,  elevator |-> 0 - 10]
    [] phase = "EMERGENCY" -> [throttle |-> 50,  elevator |-> 0]

\* updateControlSurfaces with the two assignments of each case exchanged:
\* the throttle receives the elevator target and the elevator the throttle's
updateControlSurfaces_exchanged(fc) ==
  LET tg == PhaseTargets(fc.currentPhase_)
  IN [fc EXCEPT !.controls_ =
        ControlSurfaces(Clamp(tg.throttle, 0 - 100, 100),
                        Clamp(fc.controls_.aileron, 0 - 100, 100),
                        Clamp(fc.controls_.rudder, 0 - 100, 100),
                        Clamp(tg.elevator, 0 - 100, 100))]

updateControlSurfaces(fc) ==
  LET tg == PhaseTargets(fc.currentPhase_)
  IN [fc EXCEPT !.controls_ =
        ControlSurfaces(Clamp(tg.elevator, 0 - 100, 100),
                        Clamp(fc.controls_.aileron, 0 - 100, 100),
                        Clamp(fc.controls_.rudder, 0 - 100, 100),
                        Clamp(tg.throttle, 0, 100))]

\* duration_cast<seconds>(now - phaseStartTime_).count()
ElapsedSeconds(fc, t) == (t - fc.phaseStartTime_) \div 1000


\* a switch whose EMERGENCY case resumes the interrupted phase (the other
\* cases hold the phase)
updatePhase_resume(fc, altitude, airspeed, verticalSpeed, t) ==
  IF fc.currentPhase_ = "EMERGENCY"
    THEN transitionToPhase(fc, fc.previousPhase_, t)
    ELSE fc

\* the switch with an APPROACH guard that includes its threshold
updatePhase_inclusive(fc, altitude, airspeed, verticalSpeed, t) ==
  CASE fc.currentPhase_ = "PREFLIGHT" ->
         IF airspeed > D(5) /\ fc.controls_.throttle > 50
           THEN transitionToPhase(fc, "TAKEOFF", t) ELSE fc
    [] fc.currentPhase_ = "TAKEOFF" ->
         IF altitude > D(100) /\ verticalSpeed > D(2)
           THEN transitionToPhase(fc, "CLIMB", t) ELSE fc
    [] fc.currentPhase_ = "CLIMB" ->
         IF altitude > D(3000) /\ Abs(verticalSpeed) < D(1)
           THEN transitionToPhase(fc, "CRUISE", t) ELSE fc
    [] fc.currentPhase_ = "CRUISE" ->
         IF ElapsedSeconds(fc, t) > 60 /\ verticalSpeed < D(0 - 1)
           THEN transitionToPhase(fc, "DESCENT", t) ELSE fc
    [] fc.currentPhase_ = "DESCENT" ->
         IF altitude < D(500) /\ airspeed < D(80)
           THEN transitionToPhase(fc, "APPROACH", t) ELSE fc
    [] fc.currentPhase_ = "APPROACH" ->
         IF altitude <= D(50)
           THEN transitionToPhase(fc, "LANDING", t) ELSE fc
    [] fc.currentPhase_ = "LANDING" -> fc
    [] fc.currentPhase_ = "EMERGENCY" -> fc

\* the switch of FlightController::update.  The PREFLIGHT guard names
\* `throttle`: the controller's commanded throttle, controls_.throttle.
updatePhase(fc, altitude, airspeed, verticalSpeed, t) ==
  CASE fc.currentPhase_ = "PREFLIGHT" ->
         IF airspeed > D(5) /\ fc.controls_.throttle > 50
           THEN transitionToPhase(fc, "TAKEOFF", t) ELSE fc
    [] fc.currentPhase_ = "TAKEOFF" ->
         IF altitude > D(100) /\ verticalSpeed > D(2)
           THEN transitionToPhase(fc, "CLIMB", t) ELSE fc
    [] fc.currentPhase_ = "CLIMB" ->
         IF altitude > D(3000) /\ Abs(verticalSpeed) < D(1)
           THEN transitionToPhase(fc, "CRUISE", t) ELSE fc
    [] fc.currentPhase_ = "CRUISE" ->
         IF ElapsedSeconds(fc, t) > 60 /\ verticalSpeed < D(0 - 1)
           THEN transitionToPhase(fc, "DESCENT", t) ELSE fc
    [] fc.currentPhase_ = "DESCENT" ->
         IF altitude < D(500) /\ airspeed < D(80)
           THEN transitionToPhase(fc, "APPROACH", t) ELSE fc
    [] fc.currentPhase_ = "APPROACH" ->
         IF altitude < D(50)
           THEN transitionToPhase(fc, "LANDING", t) ELSE fc
    [] fc.currentPhase_ = "LANDING" -> fc
    [] fc.currentPhase_ = "EMERGENCY" -> fc

\* update that computes the control surfaces before the phase switch
update_surfacesFirst(fc, altitude, airspeed, verticalSpeed, t) ==
  updatePhase(updateControlSurfaces(fc), altitude, airspeed, verticalSpeed, t)

update(fc, altitude, airspeed, verticalSpeed, t) ==
  updateControlSurfaces(updatePhase(fc, altitude, airspeed, verticalSpeed, t))


\* triggerEmergency that resets the clock but leaves the phase alone
triggerEmergency_phaseKept(fc, t) ==
  [fc EXCEPT !.previousPhase_ = fc.currentPhase_, !.phaseStartTime_ = t]

triggerEmergency(fc, t) ==
  [fc EXCEPT !.previousPhase_ = fc.currentPhase_,
             !.currentPhase_ = "EMERGENCY",
             !.phaseStartTime_ = t]

\* ------------------------------------------------------------------------
\* FaultHandler
\* ------------------------------------------------------------------------
FaultSeverity == {"INFO", "WARNING", "CRITICAL", "FATAL"}

FaultRecord(t, severity, component, description) ==
  [timestamp |-> t, severity |-> severity, component |-> component,
   description |-> description, resolved |-> FALSE]

FaultHandler_ctor ==
  [faults_ |-> << >>, criticalFaultCount_ |-> 0, warningFaultCount_ |-> 0]

FaultHandler_initialize(fh) ==
  [fh EXCEPT !.faults_ = << >>, !.criticalFaultCount_ = 0,
             !.warningFaultCount_ = 0]


\* reportFault that drops a report whose severity and component are already
\* in the log
reportFault_deduplicated(fh, severity, component, description, t) ==
  IF \E i \in 1..Len(fh.faults_) :
       /\ fh.faults_[i].severity = severity
       /\ fh.faults_[i].component = component
    THEN fh
    ELSE [faults_ |-> Append(fh.faults_,
                             FaultRecord(t, severity, component, description)),
          criticalFaultCount_ |->
            IF severity = "CRITICAL" \/ severity = "FATAL"
              THEN fh.criticalFaultCount_ + 1 ELSE fh.criticalFaultCount_,
          warningFaultCount_ |->
            IF severity = "WARNING"
              THEN fh.warningFaultCount_ + 1 ELSE fh.warningFaultCount_]

\* reportFault whose safety counter misses FATAL
reportFault_fatalUncounted(fh, severity, component, description, t) ==
  [faults_ |-> Append(fh.faults_,
                      FaultRecord(t, severity, component, description)),
   criticalFaultCount_ |->
     IF severity = "CRITICAL"
       THEN fh.criticalFaultCount_ + 1 ELSE fh.criticalFaultCount_,
   warningFaultCount_ |->
     IF severity = "WARNING"
       THEN fh.warningFaultCount_ + 1 ELSE fh.warningFaultCount_]

reportFault(fh, severity, component, description, t) ==
  [faults_ |-> Append(fh.faults_,
                      FaultRecord(t, severity, component, description)),
   criticalFaultCount_ |->
     IF severity = "CRITICAL" \/ severity = "FATAL"
       THEN fh.criticalFaultCount_ + 1 ELSE fh.criticalFaultCount_,
   warningFaultCount_ |->
     IF severity = "WARNING"
       THEN fh.warningFaultCount_ + 1 ELSE fh.warningFaultCount_]


\* isInRange with open bounds
isInRange_open(value, min, max) == value > min /\ value < max

isInRange(value, min, max) == value >= min /\ value <= max

\* one conditional reportFault of a check function
reportIf(cond, fh, severity, component, description, t) ==
  IF cond THEN reportFault(fh, severity, component, description, t) ELSE fh

\* checkSensorHealth without the early return after the invalid-data report
checkSensorHealth_noReturn(fh, altitude, airspeed, pressure, sensorValid, t) ==
  LET f0 == reportIf(~sensorValid, fh, "CRITICAL", "SensorProcessor",
                     "Sensor fault detected - invalid data", t)
      f1 == reportIf(~isInRange(altitude, D(0 - 500), D(15000)), f0,
                     "WARNING", "AltitudeSensor",
                     "Altitude reading out of expected range", t)
      f2 == reportIf(~isInRange(airspeed, D(0), D(300)), f1,
                     "WARNING", "AirspeedSensor",
                     "Airspeed reading out of expected range", t)
      f3 == reportIf(~isInRange(pressure, D(100), D(1100)), f2,
                     "WARNING", "PressureSensor",
                     "Pressure reading out of expected range", t)
  IN reportIf(altitude < D(0) /\ airspeed > D(50), f3,
              "FATAL", "FlightSystem",
              "Critical: Negative altitude with high airspeed", t)

checkSensorHealth(fh, altitude, airspeed, pressure, sensorValid, t) ==
  IF ~sensorValid
    THEN reportFault(fh, "CRITICAL", "SensorProcessor",
                     "Sensor fault detected - invalid data", t)
    ELSE
      LET f1 == reportIf(~isInRange(altitude, D(0 - 500), D(15000)), fh,
                         "WARNING", "AltitudeSensor",
                         "Altitude reading out of expected range", t)
          f2 == reportIf(~isInRange(airspeed, D(0), D(300)), f1,
                         "WARNING", "AirspeedSensor",
                         "Airspeed reading out of expected range", t)
          f3 == reportIf(~isInRange(pressure, D(100), D(1100)), f2,
                         "WARNING", "PressureSensor",
                         "Pressure reading out of expected range", t)
      IN reportIf(altitude < D(0) /\ airspeed > D(50), f3,
                  "FATAL", "FlightSystem",
                  "Critical: Negative altitude with high airspeed", t)

\* checkControlSystem whose last branch (all three deflections 0) reports
checkControlSystem_idleReported(fh, elevator, aileron, rudder, t) ==
  LET f1 == reportIf(Abs(elevator) > 95, fh, "WARNING", "ElevatorControl",
                     "Elevator near saturation limit", t)
      f2 == reportIf(Abs(aileron) > 95, f1, "WARNING", "AileronControl",
                     "Aileron near saturation limit", t)
      f3 == reportIf(Abs(rudder) > 95, f2, "WARNING", "RudderControl",
                     "Rudder near saturation limit", t)
  IN reportIf(elevator = 0 /\ aileron = 0 /\ rudder = 0, f3,
              "INFO", "ControlSystem", "Control surfaces idle", t)

\* checkControlSystem with an inclusive threshold
checkControlSystem_inclusive(fh, elevator, aileron, rudder, t) ==
  LET f1 == reportIf(Abs(elevator) >= 95, fh, "WARNING", "ElevatorControl",
                     "Elevator near saturation limit", t)
      f2 == reportIf(Abs(aileron) >= 95, f1, "WARNING", "AileronControl",
                     "Aileron near saturation limit", t)
  IN reportIf(Abs(rudder) >= 95, f2, "WARNING", "RudderControl",
              "Rudder near saturation limit", t)

checkControlSystem(fh, elevator, aileron, rudder, t) ==
  LET f1 == reportIf(Abs(elevator) > 95, fh, "WARNING", "ElevatorControl",
                     "Elevator near saturation limit", t)
      f2 == reportIf(Abs(aileron) > 95, f1, "WARNING", "AileronControl",
                     "Aileron near saturation limit", t)
  IN reportIf(Abs(rudder) > 95, f2, "WARNING", "RudderControl",
              "Rudder near saturation limit", t)

getActiveFaults(fh) == SelectSeq(fh.faults_, LAMBDA f : ~f.resolved)

isSystemSafe(fh) == fh.criticalFaultCount_ = 0

getFaultCount(fh, severity) ==
  Len(SelectSeq(fh.faults_,
                LAMBDA f : f.severity = severity /\ ~f.resolved))

\* clearResolvedFaults with the predicate inverted: removes the unresolved
\* records
clearResolvedFaults_unresolved(fh) ==
  [fh EXCEPT !.faults_ = SelectSeq(fh.faults_, LAMBDA f : f.resolved)]

clearResolvedFaults(fh) ==
  [fh EXCEPT !.faults_ = SelectSeq(fh.faults_, LAMBDA f : ~f.resolved)]

\* ------------------------------------------------------------------------
\* SensorProcessor
\* ------------------------------------------------------------------------
SensorProcessor_ctor ==
  [altitudeHistory_ |-> << >>, airspeedHistory_ |-> << >>,
   altitudeFault_ |-> FALSE, airspeedFault_ |-> FALSE,
   pressureFault_ |-> FALSE]

SensorProcessor_initialize(sp) ==
  [sp EXCEPT !.altitudeHistory_ = << >>, !.airspeedHistory_ = << >>,
             !.altitudeFault_ = FALSE, !.airspeedFault_ = FALSE,
             !.pressureFault_ = FALSE]

\* injectFault that also empties the filter windows
injectFault_windowsEmptied(sp, altitudeFault, airspeedFault, pressureFault) ==
  [sp EXCEPT !.altitudeFault_ = altitudeFault,
             !.airspeedFault_ = airspeedFault,
             !.pressureFault_ = pressureFault,
             !.altitudeHistory_ = << >>, !.airspeedHistory_ = << >>]

injectFault(sp, altitudeFault, airspeedFault, pressureFault) ==
  [sp EXCEPT !.altitudeFault_ = altitudeFault,
             !.airspeedFault_ = airspeedFault,
             !.pressureFault_ = pressureFault]

areSensorsHealthy(sp) ==
  ~sp.altitudeFault_ /\ ~sp.airspeedFault_ /\ ~sp.pressureFault_

RECURSIVE SumSeq(_)
SumSeq(s) == IF s = << >> THEN 0 ELSE Head(s) + SumSeq(Tail(s))

\* a window that drops the sample just pushed instead of the oldest
applyFilterHistory_newestEvicted(history, newValue) ==
  LET pushed == Append(history, newValue)
  IN IF Len(pushed) > FILTER_WINDOW_SIZE
       THEN SubSeq(pushed, 1, FILTER_WINDOW_SIZE) ELSE pushed

\* the history applyFilter leaves behind: push_back, then pop_front when the
\* window is exceeded
applyFilterHistory(history, newValue) ==
  LET pushed == Append(history, newValue)
  IN IF Len(pushed) > FILTER_WINDOW_SIZE THEN Tail(pushed) ELSE pushed

\* the value applyFilter returns: sum / size, in telemetry units.  The
\* histories hold whole values, and Scale is a multiple of every length.
applyFilter(history, newValue) ==
  LET h == applyFilterHistory(history, newValue)
  IN SumSeq(h) * (Scale \div Len(h))

\* Raw readings, as whole values.  A faulted channel reads the sentinel.
\* Otherwise the reading is the profile value at `time` (in ms) plus Gaussian
\* noise, clamped at 0: the altitude is drawn from ground level and cruise
\* level; the airspeed is 0 in the ground phase and the cruise speed after.
Sentinel == 0 - 999

ProfileAltitudes == {0, 3000}

GROUND_PHASE_END == 15000

\* simulateAltitude without the clamp at 0: on the ground the noise can take
\* the reading below 0
simulateAltitude_unclamped(sp, time) ==
  IF sp.altitudeFault_ THEN {Sentinel} ELSE ProfileAltitudes \cup {0 - 3}

simulateAltitude(sp, time) ==
  IF sp.altitudeFault_ THEN {Sentinel} ELSE ProfileAltitudes

simulateAirspeed(sp, time) ==
  IF sp.airspeedFault_ THEN {Sentinel}
  ELSE IF time < GROUND_PHASE_END THEN {0} ELSE {100}

\* P0 * exp(-altitude / H) plus noise, quantised to the nominal value at sea
\* level and at cruise altitude
simulatePressure(sp, altitude) ==
  IF sp.pressureFault_ THEN D(Sentinel)
  ELSE IF altitude < D(1500) THEN D(1013) ELSE D(712)

\* processSensors whose validity flag leaves out the airspeed channel
processSensors_airspeedUnchecked(sp, rawAltitude, rawAirspeed) ==
  LET ah == applyFilterHistory(sp.altitudeHistory_, rawAltitude)
      sh == applyFilterHistory(sp.airspeedHistory_, rawAirspeed)
      alt == applyFilter(sp.altitudeHistory_, rawAltitude)
  IN [sp |-> [sp EXCEPT !.altitudeHistory_ = ah, !.airspeedHistory_ = sh],
      data |->
        [altitude |-> alt,
         airspeed |-> applyFilter(sp.airspeedHistory_, rawAirspeed),
         pressure |-> simulatePressure(sp, alt),
         verticalSpeed |->
           IF Len(ah) >= 2 THEN D((ah[Len(ah)] - ah[Len(ah) - 1]) * 10)
           ELSE 0,
         valid |-> ~sp.altitudeFault_ /\ ~sp.pressureFault_]]

\* processSensors for the raw readings drawn by simulateAltitude and
\* simulateAirspeed: the new processor state and the SensorData returned
\* (temperature is only written to the telemetry file and is left out)
processSensors(sp, rawAltitude, rawAirspeed) ==
  LET ah == applyFilterHistory(sp.altitudeHistory_, rawAltitude)
      sh == applyFilterHistory(sp.airspeedHistory_, rawAirspeed)
      alt == applyFilter(sp.altitudeHistory_, rawAltitude)
  IN [sp |-> [sp EXCEPT !.altitudeHistory_ = ah, !.airspeedHistory_ = sh],
      data |->
        [altitude |-> alt,
         airspeed |-> applyFilter(sp.airspeedHistory_, rawAirspeed),
         pressure |-> simulatePressure(sp, alt),
         verticalSpeed |->
           IF Len(ah) >= 2 THEN D((ah[Len(ah)] - ah[Len(ah) - 1]) * 10)
           ELSE 0,
         valid |-> ~sp.altitudeFault_ /\ ~sp.airspeedFault_
                     /\ ~sp.pressureFault_]]

\* ------------------------------------------------------------------------
\* TelemetryLogger: the two files; of the telemetry file the last row
\* ------------------------------------------------------------------------
NoRow == [simulationTime |-> 0 - 1]

TelemetryLogger_ctor ==
  [telemetryOpen |-> FALSE, eventOpen |-> FALSE, telemetryFile_ |-> NoRow,
   eventFile_ |-> << >>]

logEvent(lg, event) ==
  IF ~lg.eventOpen THEN lg
  ELSE [lg EXCEPT !.eventFile_ = Append(lg.eventFile_, event)]

\* initialize(): either file may fail to open
TelemetryLogger_initialize(lg, telemetryOk, eventOk) ==
  IF ~telemetryOk THEN lg
  ELSE IF ~eventOk THEN [lg EXCEPT !.telemetryOpen = TRUE]
  ELSE logEvent([lg EXCEPT !.telemetryOpen = TRUE, !.eventOpen = TRUE],
                "Telemetry logging system initialized")

logData(lg, simulationTime, sensors, phase, controls, activeFaults) ==
  IF ~lg.telemetryOpen THEN lg
  ELSE [lg EXCEPT !.telemetryFile_ =
          [simulationTime |-> simulationTime, sensors |-> sensors,
           phase |-> phase, controls |-> controls,
           activeFaults |-> activeFaults]]

close(lg) ==
  LET l1 == [lg EXCEPT !.telemetryOpen = FALSE]
  IN IF l1.eventOpen
       THEN [logEvent(l1, "Logging system shutdown") EXCEPT !.eventOpen = FALSE]
       ELSE l1

\* ------------------------------------------------------------------------
\* SystemMonitor: state
\* ------------------------------------------------------------------------
VARIABLES
  flightController_,  \* SystemMonitor::flightController_
  sensorProcessor_,   \* SystemMonitor::sensorProcessor_
  faultHandler_,      \* SystemMonitor::faultHandler_
  logger_,            \* SystemMonitor::logger_
  simulationTime_,    \* SystemMonitor::simulationTime_, in ms
  run_,               \* arguments and locals of run(): duration, updateRate,
                      \* dt, iterationCount
  now,                \* reading of the clocks, in ms
  pc,                 \* position of main()
  call                \* the operation that ran last, with its arguments

vars ==
  <<flightController_, sensorProcessor_, faultHandler_, logger_,
    simulationTime_, run_, now, pc, call>>

NoRun == [duration |-> 0, updateRate |-> 0, dt |-> 0, iterationCount |-> 0]

Init ==
  /\ now = 0
  /\ flightController_ = FlightController_ctor(0)
  /\ sensorProcessor_ = SensorProcessor_ctor
  /\ faultHandler_ = FaultHandler_ctor
  /\ logger_ = TelemetryLogger_ctor
  /\ simulationTime_ = 0
  /\ run_ = NoRun
  /\ pc = "constructed"
  /\ call = [op |-> "ctor"]

\* ------------------------------------------------------------------------
\* SystemMonitor: main() runs initialize(), run(), shutdown()
\* ------------------------------------------------------------------------
INJECT_TIME == 100000

CLEAR_TIME == 105000

\* (duration in ms, update rate in Hz) pairs passed to run(); main() keeps the
\* rate in [1, 100]
RunConfigs ==
  {[duration |-> 112000, updateRate |-> 1],
   [duration |-> 3000, updateRate |-> 2]}

Initialize ==
  /\ pc = "constructed"
  /\ \E telemetryOk, eventOk \in BOOLEAN :
       LET lg == TelemetryLogger_initialize(logger_, telemetryOk, eventOk)
           ok == telemetryOk /\ eventOk
       IN /\ logger_' = IF ok THEN logEvent(lg, "System initialization complete")
                              ELSE lg
          /\ pc' = IF ok THEN "initialized" ELSE "failed"
  /\ flightController_' = FlightController_initialize(flightController_, now)
  /\ sensorProcessor_' = SensorProcessor_initialize(sensorProcessor_)
  /\ faultHandler_' = FaultHandler_initialize(faultHandler_)
  /\ simulationTime_' = 0
  /\ call' = [op |-> "SystemMonitor::initialize"]
  /\ UNCHANGED <<run_, now>>

RunStart ==
  /\ pc = "initialized"
  /\ \E cfg \in RunConfigs :
       run_' = [duration |-> cfg.duration, updateRate |-> cfg.updateRate,
                dt |-> 1000 \div cfg.updateRate, iterationCount |-> 0]
  /\ logger_' = logEvent(logger_, "Flight simulation started")
  /\ pc' = "running"
  /\ call' = [op |-> "run"]
  /\ UNCHANGED <<flightController_, sensorProcessor_, faultHandler_,
                 simulationTime_, now>>

\* one iteration of the while loop of run(), on the monitor state m, for the
\* raw readings the simulate functions draw
runTick(m, rawAltitude, rawAirspeed) ==
  Once(processSensors(m.sp, rawAltitude, rawAirspeed), LAMBDA ps :
  Once(ps.data, LAMBDA sensors :
  Once(update(m.fc, sensors.altitude, sensors.airspeed,
              sensors.verticalSpeed, m.now), LAMBDA fc1 :
  Once(checkSensorHealth(m.fh, sensors.altitude, sensors.airspeed,
                         sensors.pressure, sensors.valid, m.now), LAMBDA fh1 :
  Once(checkControlSystem(fh1, fc1.controls_.elevator, fc1.controls_.aileron,
                          fc1.controls_.rudder, m.now), LAMBDA fh2 :
  LET currentPhase == fc1.currentPhase_
      controls == fc1.controls_
      trigger == ~isSystemSafe(fh2) /\ currentPhase # "EMERGENCY"
      fc2 == IF trigger THEN triggerEmergency(fc1, m.now) ELSE fc1
      lg1 == IF trigger
               THEN logEvent(m.lg,
                             "Emergency mode activated due to critical fault")
               ELSE m.lg
      activeFaults == Len(getActiveFaults(fh2))
      lg2 == logData(lg1, m.simulationTime, sensors, currentPhase, controls,
                     activeFaults)
      printed == (m.run.iterationCount % m.run.updateRate) = 0
      inject == Abs(m.simulationTime - INJECT_TIME) < m.run.dt
      sp1 == IF inject THEN injectFault(ps.sp, FALSE, TRUE, FALSE) ELSE ps.sp
      lg3 == IF inject THEN logEvent(lg2, "Test fault injected: Airspeed sensor")
             ELSE lg2
      clear == Abs(m.simulationTime - CLEAR_TIME) < m.run.dt
      sp2 == IF clear THEN injectFault(sp1, FALSE, FALSE, FALSE) ELSE sp1
      lg4 == IF clear THEN logEvent(lg3, "Test fault cleared") ELSE lg3
  IN [fc |-> fc2, sp |-> sp2, fh |-> fh2, lg |-> lg4,
      simulationTime |-> m.simulationTime + m.run.dt,
      run |-> [m.run EXCEPT !.iterationCount = @ + 1],
      now |-> m.now + m.run.dt,
      call |-> [op |-> "tick", sensors |-> sensors, triggered |-> trigger,
                printed |-> printed]])))))

Monitor ==
  [fc |-> flightController_, sp |-> sensorProcessor_, fh |-> faultHandler_,
   lg |-> logger_, simulationTime |-> simulationTime_, run |-> run_,
   now |-> now]

\* a loop that stops iterating once the controller is in EMERGENCY
RunTick_haltOnEmergency ==
  /\ pc = "running"
  /\ simulationTime_ < run_.duration
  /\ flightController_.currentPhase_ # "EMERGENCY"
  /\ \E rawAltitude \in simulateAltitude(sensorProcessor_, simulationTime_),
        rawAirspeed \in simulateAirspeed(sensorProcessor_, simulationTime_) :
       \E m \in {runTick(Monitor, rawAltitude, rawAirspeed)} :
          /\ flightController_' = m.fc
          /\ sensorProcessor_' = m.sp
          /\ faultHandler_' = m.fh
          /\ logger_' = m.lg
          /\ simulationTime_' = m.simulationTime
          /\ run_' = m.run
          /\ now' = m.now
          /\ call' = m.call
  /\ UNCHANGED pc

\* an iteration in which a fault check that records something also puts the
\* controller in EMERGENCY
RunTick_faultsEscalate ==
  /\ pc = "running"
  /\ simulationTime_ < run_.duration
  /\ \E rawAltitude \in simulateAltitude(sensorProcessor_, simulationTime_),
        rawAirspeed \in simulateAirspeed(sensorProcessor_, simulationTime_) :
       \E m \in {runTick(Monitor, rawAltitude, rawAirspeed)} :
          /\ flightController_' =
               IF Len(m.fh.faults_) > Len(faultHandler_.faults_)
                 THEN triggerEmergency(m.fc, now) ELSE m.fc
          /\ sensorProcessor_' = m.sp
          /\ faultHandler_' = m.fh
          /\ logger_' = m.lg
          /\ simulationTime_' = m.simulationTime
          /\ run_' = m.run
          /\ now' = m.now
          /\ call' = m.call
  /\ UNCHANGED pc

RunTick ==
  /\ pc = "running"
  /\ simulationTime_ < run_.duration
  /\ \E rawAltitude \in simulateAltitude(sensorProcessor_, simulationTime_),
        rawAirspeed \in simulateAirspeed(sensorProcessor_, simulationTime_) :
       \E m \in {runTick(Monitor, rawAltitude, rawAirspeed)} :
          /\ flightController_' = m.fc
          /\ sensorProcessor_' = m.sp
          /\ faultHandler_' = m.fh
          /\ logger_' = m.lg
          /\ simulationTime_' = m.simulationTime
          /\ run_' = m.run
          /\ now' = m.now
          /\ call' = m.call
  /\ UNCHANGED pc

RunEnd ==
  /\ pc = "running"
  /\ ~(simulationTime_ < run_.duration)
  /\ logger_' = logEvent(logger_, "Flight simulation completed")
  /\ pc' = "completed"
  /\ call' = [op |-> "run end"]
  /\ UNCHANGED <<flightController_, sensorProcessor_, faultHandler_,
                 simulationTime_, run_, now>>

Shutdown ==
  /\ pc = "completed"
  /\ logger_' = close(logEvent(logger_, "System shutdown initiated"))
  /\ pc' = "shutdown"
  /\ call' = [op |-> "shutdown"]
  /\ UNCHANGED <<flightController_, sensorProcessor_, faultHandler_,
                 simulationTime_, run_, now>>

Next == Initialize \/ RunStart \/ RunTick \/ RunEnd \/ Shutdown

Spec == Init /\ [][Next]_vars

\* main() is one thread that runs to its end: a step that can be taken is
\* taken
SpecLive == Spec /\ WF_vars(Next)

\* ------------------------------------------------------------------------
\* SIGINT / SIGTERM: signalHandler runs on the main thread at whatever
\* instruction the signal interrupts, calls shutdown() and exits
\* ------------------------------------------------------------------------
\* where in an iteration of the loop the signal can land: before
\* processSensors, and after each of the calls up to logData
TickPositions == {"head", "sensed", "updated", "checked", "arbitrated"}

\* the monitor state when the iteration has run up to `position`
tickPrefix(m, rawAltitude, rawAirspeed, position) ==
  Once(processSensors(m.sp, rawAltitude, rawAirspeed), LAMBDA ps :
  Once(update(m.fc, ps.data.altitude, ps.data.airspeed,
              ps.data.verticalSpeed, m.now), LAMBDA fc1 :
  Once(checkControlSystem(
         checkSensorHealth(m.fh, ps.data.altitude, ps.data.airspeed,
                           ps.data.pressure, ps.data.valid, m.now),
         fc1.controls_.elevator, fc1.controls_.aileron,
         fc1.controls_.rudder, m.now), LAMBDA fh2 :
  LET trigger == ~isSystemSafe(fh2) /\ fc1.currentPhase_ # "EMERGENCY"
  IN CASE position = "head" -> m
       [] position = "sensed" -> [m EXCEPT !.sp = ps.sp]
       [] position = "updated" -> [m EXCEPT !.sp = ps.sp, !.fc = fc1]
       [] position = "checked" ->
            [m EXCEPT !.sp = ps.sp, !.fc = fc1, !.fh = fh2]
       [] position = "arbitrated" ->
            [m EXCEPT !.sp = ps.sp, !.fh = fh2,
                      !.fc = IF trigger THEN triggerEmergency(fc1, m.now)
                             ELSE fc1,
                      !.lg = IF trigger
                               THEN logEvent(m.lg,
                                      "Emergency mode activated due to critical fault")
                               ELSE m.lg])))

\* the signal arrives while run() is in its loop; shutdown() then reports
\* the state the interrupted iteration has reached
SignalHandler ==
  /\ pc = "running"
  /\ simulationTime_ < run_.duration
  /\ \E position \in TickPositions :
       \E rawAltitude \in simulateAltitude(sensorProcessor_, simulationTime_),
          rawAirspeed \in simulateAirspeed(sensorProcessor_, simulationTime_) :
         \E m \in {tickPrefix(Monitor, rawAltitude, rawAirspeed, position)} :
            /\ flightController_' = m.fc
            /\ sensorProcessor_' = m.sp
            /\ faultHandler_' = m.fh
            /\ logger_' = close(logEvent(m.lg, "System shutdown initiated"))
            /\ call' = [op |-> "signal", position |-> position,
                        finalPhase |-> m.fc.currentPhase_,
                        activeFaults |-> Len(getActiveFaults(m.fh)),
                        systemSafe |-> isSystemSafe(m.fh)]
  /\ pc' = "exited"
  /\ UNCHANGED <<simulationTime_, run_, now>>

NextSignal == Next \/ SignalHandler

SpecSignal == Init /\ [][NextSignal]_vars

\* ------------------------------------------------------------------------
\* applyFilter on one channel (the altitude history), fed sample by sample;
\* call.samples is every raw sample fed since initialize
\* ------------------------------------------------------------------------
MaxFed == 7

RawSamples == ProfileAltitudes \cup {Sentinel}

InitFilter ==
  /\ now = 0
  /\ flightController_ = FlightController_ctor(0)
  /\ sensorProcessor_ = SensorProcessor_ctor
  /\ faultHandler_ = FaultHandler_ctor
  /\ logger_ = TelemetryLogger_ctor
  /\ simulationTime_ = 0
  /\ run_ = NoRun
  /\ pc = "constructed"
  /\ call = [op |-> "ctor", samples |-> << >>, filtered |-> 0]

FilterInitialize ==
  /\ sensorProcessor_' = SensorProcessor_initialize(sensorProcessor_)
  /\ call' = [op |-> "initialize", samples |-> << >>, filtered |-> 0]
  /\ UNCHANGED <<flightController_, faultHandler_, logger_, simulationTime_,
                 run_, now, pc>>

ApplyFilter ==
  /\ Len(call.samples) < MaxFed
  /\ \E newValue \in RawSamples :
       /\ sensorProcessor_' =
            [sensorProcessor_ EXCEPT !.altitudeHistory_ =
               applyFilterHistory(sensorProcessor_.altitudeHistory_, newValue)]
       /\ call' = [op |-> "applyFilter",
                   samples |-> Append(call.samples, newValue),
                   filtered |-> applyFilter(sensorProcessor_.altitudeHistory_,
                                            newValue)]
  /\ UNCHANGED <<flightController_, faultHandler_, logger_, simulationTime_,
                 run_, now, pc>>

NextFilter == FilterInitialize \/ ApplyFilter

SpecFilter == InitFilter /\ [][NextFilter]_vars

\* ------------------------------------------------------------------------
\* double: IEEE 754 binary64, for the non-negative values.  A double is
\* bits * 2^exp, bits a big-endian binary numeral with first and last digit
\* 1 (or empty, for 0.0); results are rounded to nearest, ties to even
\* ------------------------------------------------------------------------
DOUBLE_PRECISION == 53

Zeros(n) == [i \in 1..n |-> 0]

StripLeading(b) ==
  IF \A i \in 1..Len(b) : b[i] = 0 THEN << >>
  ELSE SubSeq(b, CHOOSE i \in 1..Len(b) :
                   b[i] = 1 /\ \A j \in 1..(i - 1) : b[j] = 0, Len(b))

\* the canonical form: no trailing zero digit in bits
Canonical(x) ==
  IF \A i \in 1..Len(x.bits) : x.bits[i] = 0
    THEN [bits |-> << >>, exp |-> 0]
    ELSE LET last == CHOOSE i \in 1..Len(x.bits) :
                       x.bits[i] = 1 /\ \A j \in (i + 1)..Len(x.bits) :
                                          x.bits[j] = 0
         IN [bits |-> SubSeq(x.bits, 1, last),
             exp |-> x.exp + (Len(x.bits) - last)]

\* a numeral as base-256 digits, and back
ToBytes(b) ==
  LET padded == Zeros((8 - (Len(b) % 8)) % 8) \o b
  IN [j \in 1..(Len(padded) \div 8) |->
        padded[8 * j - 7] * 128 + padded[8 * j - 6] * 64
          + padded[8 * j - 5] * 32 + padded[8 * j - 4] * 16
          + padded[8 * j - 3] * 8 + padded[8 * j - 2] * 4
          + padded[8 * j - 1] * 2 + padded[8 * j]]

FromBytes(bytes) ==
  [i \in 1..(8 * Len(bytes)) |->
     (bytes[(i + 7) \div 8] \div 2 ^ (7 - ((i - 1) % 8))) % 2]

\* a + b on the base-256 digits 1..j of numerals of the same length, for the
\* carry into digit j
RECURSIVE AddBytes(_, _, _, _)
AddBytes(a, b, j, carry) ==
  IF j = 0 THEN (IF carry = 1 THEN <<1>> ELSE << >>)
  ELSE Once(a[j] + b[j] + carry, LAMBDA s :
         Append(AddBytes(a, b, j - 1, s \div 256), s % 256))

AddNumerals(a, b) ==
  LET n == IF Len(a) > Len(b) THEN Len(a) ELSE Len(b)
  IN Once(ToBytes(Zeros(n - Len(a)) \o a), LAMBDA x :
     Once(ToBytes(Zeros(n - Len(b)) \o b), LAMBDA y :
       StripLeading(FromBytes(AddBytes(x, y, Len(x), 0)))))

\* numeral \div n and numeral % n, for the base-256 digits 1..j of the numeral
RECURSIVE DivideBytes(_, _, _)
DivideBytes(a, n, j) ==
  IF j = 0 THEN [quotient |-> << >>, remainder |-> 0]
  ELSE Once(DivideBytes(a, n, j - 1), LAMBDA d :
         [quotient |-> Append(d.quotient, (256 * d.remainder + a[j]) \div n),
          remainder |-> (256 * d.remainder + a[j]) % n])

\* the double nearest to (numeral + fraction) * 2^exp, where `inexact` says
\* that the fraction, which is below 1, is not 0
RoundToDouble(numeral, exp, inexact) ==
  LET b == StripLeading(numeral)
      extra == Len(b) - DOUBLE_PRECISION
  IN IF extra <= 0 THEN Canonical([bits |-> b, exp |-> exp])
     ELSE LET kept == SubSeq(b, 1, DOUBLE_PRECISION)
              rest == SubSeq(b, DOUBLE_PRECISION + 1, Len(b))
              below == inexact \/ \E i \in 2..Len(rest) : rest[i] = 1
              up == rest[1] = 1 /\ (below \/ kept[DOUBLE_PRECISION] = 1)
          IN Canonical([bits |-> IF up THEN AddNumerals(kept, <<1>>)
                                 ELSE kept,
                        exp |-> exp + extra])

\* x + y
DoubleAdd(x, y) ==
  IF x.bits = << >> THEN y
  ELSE IF y.bits = << >> THEN x
  ELSE LET exp == IF x.exp < y.exp THEN x.exp ELSE y.exp
       IN Once(AddNumerals(x.bits \o Zeros(x.exp - exp),
                           y.bits \o Zeros(y.exp - exp)), LAMBDA sum :
            RoundToDouble(sum, exp, FALSE))

\* x / n for a whole n in 1..7: the numeral is extended by `shift` digits, so
\* that the quotient has more than DOUBLE_PRECISION digits
DoubleDivide(x, n) ==
  IF x.bits = << >> THEN x
  ELSE LET shift == DOUBLE_PRECISION + 5 - Len(x.bits)
       IN Once(ToBytes(x.bits \o Zeros(shift)), LAMBDA a :
          Once(DivideBytes(a, n, Len(a)), LAMBDA d :
            RoundToDouble(FromBytes(d.quotient), x.exp - shift,
                          d.remainder # 0)))

\* the double with the hexadecimal significand digits `hex`, for the binary
\* exponent `exp` of the last digit
HexNumeral(hex) ==
  [i \in 1..(4 * Len(hex)) |->
     (hex[(i + 3) \div 4] \div 2 ^ (3 - ((i - 1) % 4))) % 2]

DoubleOf(hex, exp) == RoundToDouble(HexNumeral(hex), exp, FALSE)

\* std::accumulate(values, init)
RECURSIVE DoubleSum(_, _)
DoubleSum(values, init) ==
  IF values = << >> THEN init
  ELSE Once(DoubleAdd(init, Head(values)), LAMBDA sum :
         DoubleSum(Tail(values), sum))

DoubleZero == [bits |-> << >>, exp |-> 0]

\* applyFilter as the build computes it, on doubles
applyFilterDouble(history, newValue) ==
  Once(applyFilterHistory(history, newValue), LAMBDA h :
    DoubleDivide(DoubleSum(h, DoubleZero), Len(h)))

\* raw samples 0.0, 0.5 (0x1p-1), 0.11 (0x1.c28f5c28f5c29p-4) and
\* 100.0 (0x64p0)
DoubleSamples ==
  {DoubleZero, DoubleOf(<<1>>, 0 - 1),
   DoubleOf(<<1, 12, 2, 8, 15, 5, 12, 2, 8, 15, 5, 12, 2, 9>>, 0 - 56),
   DoubleOf(<<6, 4>>, 0)}

InitDouble ==
  /\ now = 0
  /\ flightController_ = FlightController_ctor(0)
  /\ sensorProcessor_ = SensorProcessor_ctor
  /\ faultHandler_ = FaultHandler_ctor
  /\ logger_ = TelemetryLogger_ctor
  /\ simulationTime_ = 0
  /\ run_ = NoRun
  /\ pc = "constructed"
  /\ call = [op |-> "ctor", filtered |-> DoubleZero]

DoubleInitialize ==
  /\ sensorProcessor_' = SensorProcessor_initialize(sensorProcessor_)
  /\ call' = [op |-> "initialize", filtered |-> DoubleZero]
  /\ UNCHANGED <<flightController_, faultHandler_, logger_, simulationTime_,
                 run_, now, pc>>

ApplyFilterDouble ==
  /\ \E newValue \in DoubleSamples :
       /\ sensorProcessor_' =
            [sensorProcessor_ EXCEPT !.altitudeHistory_ =
               applyFilterHistory(sensorProcessor_.altitudeHistory_, newValue)]
       /\ call' = [op |-> "applyFilter",
                   filtered |->
                     applyFilterDouble(sensorProcessor_.altitudeHistory_,
                                       newValue)]
  /\ UNCHANGED <<flightController_, faultHandler_, logger_, simulationTime_,
                 run_, now, pc>>

NextDouble == DoubleInitialize \/ ApplyFilterDouble

SpecDouble == InitDouble /\ [][NextDouble]_vars

\* ------------------------------------------------------------------------
\* main(): the command line.  argv[2] is the update rate; a double is a whole
\* number of Hz or NaN
\* ------------------------------------------------------------------------
DEFAULT_UPDATE_RATE == 10

UPDATE_RATE_MIN == 1

UPDATE_RATE_MAX == 100

\* argv[2]: absent, text std::stod rejects, a number, or "nan", which
\* std::stod accepts
RateArguments ==
  {[kind |-> "absent", value |-> 0], [kind |-> "text", value |-> 0],
   [kind |-> "nan", value |-> 0]}
    \cup {[kind |-> "number", value |-> v] : v \in {0, 1, 100, 101}}

\* argv[1], in seconds
DurationArguments == {2}

Double(v) == [notANumber |-> FALSE, value |-> v]

NotANumber == [notANumber |-> TRUE, value |-> 0]

\* x < y and x > y on doubles: both are false when x is NaN
LessThan(x, y) == ~x.notANumber /\ x.value < y

GreaterThan(x, y) == ~x.notANumber /\ x.value > y

\* main()'s updateRate after the argument is parsed
parseUpdateRate(argument) ==
  CASE argument.kind = "absent" -> Double(DEFAULT_UPDATE_RATE)
    [] argument.kind = "text" -> Double(DEFAULT_UPDATE_RATE)
    [] OTHER ->
         LET updateRate == IF argument.kind = "nan" THEN NotANumber
                           ELSE Double(argument.value)
         IN IF LessThan(updateRate, UPDATE_RATE_MIN)
                 \/ GreaterThan(updateRate, UPDATE_RATE_MAX)
              THEN Double(DEFAULT_UPDATE_RATE)
              ELSE updateRate

InitArguments ==
  /\ now = 0
  /\ flightController_ = FlightController_ctor(0)
  /\ sensorProcessor_ = SensorProcessor_ctor
  /\ faultHandler_ = FaultHandler_ctor
  /\ logger_ = TelemetryLogger_ctor
  /\ simulationTime_ = 0
  /\ run_ = NoRun
  /\ pc = "main"
  /\ \E argument \in RateArguments :
       call = [op |-> "main", argument |-> argument]

\* main() up to the construction of the SystemMonitor; run_ keeps the
\* duration and the rate main() will pass to run()
ParseArguments ==
  /\ pc = "main"
  /\ \E duration \in DurationArguments :
       LET updateRate == parseUpdateRate(call.argument)
       IN run_' = [duration |-> duration * 1000,
                   updateRate |-> updateRate.value,
                   dt |-> 0, iterationCount |-> 0,
                   notANumber |-> updateRate.notANumber,
                   argument |-> call.argument]
  /\ pc' = "constructed"
  /\ call' = [op |-> "parse"]
  /\ UNCHANGED <<flightController_, sensorProcessor_, faultHandler_, logger_,
                 simulationTime_, now>>

\* run(duration, updateRate) up to the loop, for main()'s arguments
RunStartArguments ==
  /\ pc = "initialized"
  /\ run_' = [run_ EXCEPT !.dt = IF run_.notANumber THEN 0
                                 ELSE 1000 \div run_.updateRate]
  /\ logger_' = logEvent(logger_, "Flight simulation started")
  /\ pc' = IF run_.notANumber THEN "running NaN" ELSE "running"
  /\ call' = [op |-> "run"]
  /\ UNCHANGED <<flightController_, sensorProcessor_, faultHandler_,
                 simulationTime_, now>>

\* the loop of run() when updateRate, and so dt, is NaN: the first iteration
\* runs; neither injection test holds (a comparison with NaN is false);
\* iterationCount % static_cast<int>(NaN) is undefined, it yields a value or
\* traps; simulationTime_ becomes NaN and the loop test then fails
RunNotANumber ==
  /\ pc = "running NaN"
  /\ \E rawAltitude \in simulateAltitude(sensorProcessor_, simulationTime_),
        rawAirspeed \in simulateAirspeed(sensorProcessor_, simulationTime_),
        trapped \in BOOLEAN :
       \E m \in {runTick([Monitor EXCEPT !.run.updateRate = 1],
                          rawAltitude, rawAirspeed)} :
          /\ flightController_' = m.fc
          /\ sensorProcessor_' = m.sp
          /\ faultHandler_' = m.fh
          /\ logger_' = IF trapped THEN m.lg
                        ELSE logEvent(m.lg, "Flight simulation completed")
          /\ run_' = IF trapped THEN run_
                     ELSE [run_ EXCEPT !.iterationCount = 1]
          /\ pc' = IF trapped THEN "trapped" ELSE "completed"
          /\ call' = [op |-> "run NaN", trapped |-> trapped]
  /\ UNCHANGED <<simulationTime_, now>>

NextArguments ==
  \/ ParseArguments \/ Initialize \/ RunStartArguments \/ RunTick \/ RunEnd
  \/ RunNotANumber \/ Shutdown

SpecArguments == InitArguments /\ [][NextArguments]_vars

\* ------------------------------------------------------------------------
\* FlightController driven directly through its public interface
\* ------------------------------------------------------------------------
MaxClock == 61000

ClockSteps == {60000, 61000}

UpdateAltitudes ==
  {D(49), D(50), D(100), D(101), D(499), D(500), D(3000), D(3001)}

UpdateAirspeeds == {D(5), D(6), D(79), D(80)}

UpdateVerticalSpeeds == {D(0 - 2), D(0 - 1), D(0), D(1), D(2), D(3)}

ClockAdvance ==
  /\ \E d \in ClockSteps : now + d <= MaxClock /\ now' = now + d
  /\ call' = [op |-> "clock"]
  /\ UNCHANGED <<flightController_, sensorProcessor_, faultHandler_, logger_,
                 simulationTime_, run_, pc>>

FC_Initialize ==
  /\ flightController_' = FlightController_initialize(flightController_, now)
  /\ call' = [op |-> "initialize"]
  /\ UNCHANGED <<sensorProcessor_, faultHandler_, logger_, simulationTime_,
                 run_, now, pc>>

Update ==
  /\ \E altitude \in UpdateAltitudes, airspeed \in UpdateAirspeeds,
        verticalSpeed \in UpdateVerticalSpeeds :
       /\ flightController_' =
            update(flightController_, altitude, airspeed, verticalSpeed, now)
       /\ call' = [op |-> "update", altitude |-> altitude,
                   airspeed |-> airspeed, verticalSpeed |-> verticalSpeed]
  /\ UNCHANGED <<sensorProcessor_, faultHandler_, logger_, simulationTime_,
                 run_, now, pc>>

TriggerEmergency ==
  /\ flightController_' = triggerEmergency(flightController_, now)
  /\ call' = [op |-> "triggerEmergency"]
  /\ UNCHANGED <<sensorProcessor_, faultHandler_, logger_, simulationTime_,
                 run_, now, pc>>

NextFlight == ClockAdvance \/ FC_Initialize \/ Update \/ TriggerEmergency

SpecFlight == Init /\ [][NextFlight]_vars

\* The phase machine's step function taken from every value of FlightPhase:
\* the controller is put in the phase by transitionToPhase and given that
\* phase's control outputs by updateControlSurfaces.
InitPhase ==
  /\ now = 0
  /\ \E p \in FlightPhase :
       flightController_ =
         updateControlSurfaces(transitionToPhase(FlightController_ctor(0), p, 0))
  /\ sensorProcessor_ = SensorProcessor_ctor
  /\ faultHandler_ = FaultHandler_ctor
  /\ logger_ = TelemetryLogger_ctor
  /\ simulationTime_ = 0
  /\ run_ = NoRun
  /\ pc = "constructed"
  /\ call = [op |-> "ctor"]

NextPhase == ClockAdvance \/ FC_Initialize \/ Update \/ TriggerEmergency

SpecPhase == InitPhase /\ [][NextPhase]_vars

\* The phase machine ticked by the loop, from CLIMB and from CRUISE, with
\* the simulated time of the loop next to the steady clock the
\* controller reads: a tick advances both by dt (the loop sleeps dt), and
\* the steady clock also advances on its own when the process is delayed.
\* call.entered is the simulated time at which the phase was entered.
MaxDwell == 3000

DwellPhases == {"CLIMB", "CRUISE"}

DwellAltitudes == {D(3001)}

DwellVerticalSpeeds == {D(0 - 2), D(0), D(3)}

InitDwell ==
  /\ now = 0
  /\ \E p \in DwellPhases :
       flightController_ =
         updateControlSurfaces(transitionToPhase(FlightController_ctor(0), p, 0))
  /\ sensorProcessor_ = SensorProcessor_ctor
  /\ faultHandler_ = FaultHandler_ctor
  /\ logger_ = TelemetryLogger_ctor
  /\ simulationTime_ = 0
  /\ \E cfg \in RunConfigs :
       run_ = [duration |-> cfg.duration, updateRate |-> cfg.updateRate,
               dt |-> 1000 \div cfg.updateRate, iterationCount |-> 0]
  /\ pc = "running"
  /\ call = [op |-> "run", entered |-> 0]

DwellTick ==
  /\ simulationTime_ < MaxDwell
  /\ \E altitude \in DwellAltitudes, verticalSpeed \in DwellVerticalSpeeds :
       \E fc \in {update(flightController_, altitude, D(6), verticalSpeed,
                         now)} :
          /\ flightController_' = fc
          /\ call' = [op |-> "update", verticalSpeed |-> verticalSpeed,
                      entered |-> IF fc.currentPhase_
                                       # flightController_.currentPhase_
                                    THEN simulationTime_ ELSE call.entered]
  /\ simulationTime_' = simulationTime_ + run_.dt
  /\ now' = now + run_.dt
  /\ UNCHANGED <<sensorProcessor_, faultHandler_, logger_, run_, pc>>

DwellDelay ==
  /\ \E d \in ClockSteps :
       (now - simulationTime_) + d <= MaxClock /\ now' = now + d
  /\ call' = [op |-> "clock", entered |-> call.entered]
  /\ UNCHANGED <<flightController_, sensorProcessor_, faultHandler_, logger_,
                 simulationTime_, run_, pc>>

NextDwell == DwellTick \/ DwellDelay

SpecDwell == InitDwell /\ [][NextDwell]_vars

\* ------------------------------------------------------------------------
\* FaultHandler driven directly through its public interface
\* ------------------------------------------------------------------------
MaxFaults == 3

SensorAltitudes == {D(0 - 501), D(0 - 1), D(0)}

SensorAirspeeds == {D(0), D(51), D(301)}

SensorPressures == {D(1000), D(1101)}

SurfaceValues == {0, 96}

FH_Initialize ==
  /\ faultHandler_' = FaultHandler_initialize(faultHandler_)
  /\ call' = [op |-> "initialize"]
  /\ UNCHANGED <<flightController_, sensorProcessor_, logger_,
                 simulationTime_, run_, now, pc>>

ReportFault ==
  /\ Len(faultHandler_.faults_) < MaxFaults
  /\ \E severity \in FaultSeverity :
       /\ faultHandler_' =
            reportFault(faultHandler_, severity, "Client", "reported", now)
       /\ call' = [op |-> "reportFault", severity |-> severity]
  /\ UNCHANGED <<flightController_, sensorProcessor_, logger_,
                 simulationTime_, run_, now, pc>>

CheckSensorHealth ==
  /\ \E altitude \in SensorAltitudes, airspeed \in SensorAirspeeds,
        pressure \in SensorPressures, sensorValid \in BOOLEAN :
       LET fh == checkSensorHealth(faultHandler_, altitude, airspeed,
                                   pressure, sensorValid, now)
       IN /\ Len(fh.faults_) <= MaxFaults
          /\ faultHandler_' = fh
          /\ call' = [op |-> "checkSensorHealth", altitude |-> altitude,
                      airspeed |-> airspeed, pressure |-> pressure,
                      sensorValid |-> sensorValid,
                      before |-> Len(faultHandler_.faults_)]
  /\ UNCHANGED <<flightController_, sensorProcessor_, logger_,
                 simulationTime_, run_, now, pc>>

CheckControlSystem ==
  /\ \E elevator \in SurfaceValues, aileron \in SurfaceValues,
        rudder \in SurfaceValues :
       LET fh == checkControlSystem(faultHandler_, elevator, aileron, rudder,
                                    now)
       IN /\ Len(fh.faults_) <= MaxFaults
          /\ faultHandler_' = fh
          /\ call' = [op |-> "checkControlSystem", elevator |-> elevator,
                      aileron |-> aileron, rudder |-> rudder,
                      before |-> Len(faultHandler_.faults_)]
  /\ UNCHANGED <<flightController_, sensorProcessor_, logger_,
                 simulationTime_, run_, now, pc>>

ClearResolvedFaults ==
  /\ faultHandler_' = clearResolvedFaults(faultHandler_)
  /\ call' = [op |-> "clearResolvedFaults"]
  /\ UNCHANGED <<flightController_, sensorProcessor_, logger_,
                 simulationTime_, run_, now, pc>>

NextFault ==
  \/ FH_Initialize \/ ReportFault \/ CheckSensorHealth
  \/ CheckControlSystem \/ ClearResolvedFaults

SpecFault == Init /\ [][NextFault]_vars

\* ------------------------------------------------------------------------
\* The SensorProcessor driven through its public operations, for the first
\* MaxSamples samples after initialize
\* ------------------------------------------------------------------------
MaxSamples == 2

SampleTimes == {0, GROUND_PHASE_END}

SP_Initialize ==
  /\ sensorProcessor_' = SensorProcessor_initialize(sensorProcessor_)
  /\ call' = [op |-> "initialize"]
  /\ UNCHANGED <<flightController_, faultHandler_, logger_, simulationTime_,
                 run_, now, pc>>

ProcessSensors ==
  /\ Len(sensorProcessor_.altitudeHistory_) < MaxSamples
  /\ \E time \in SampleTimes :
       \E rawAltitude \in simulateAltitude(sensorProcessor_, time),
          rawAirspeed \in simulateAirspeed(sensorProcessor_, time) :
         LET ps == processSensors(sensorProcessor_, rawAltitude, rawAirspeed)
         IN /\ sensorProcessor_' = ps.sp
            /\ call' = [op |-> "processSensors", data |-> ps.data]
  /\ UNCHANGED <<flightController_, faultHandler_, logger_, simulationTime_,
                 run_, now, pc>>

InjectFault ==
  /\ \E altitudeFault \in BOOLEAN, airspeedFault \in BOOLEAN,
        pressureFault \in BOOLEAN :
       /\ sensorProcessor_' = injectFault(sensorProcessor_, altitudeFault,
                                          airspeedFault, pressureFault)
       /\ call' = [op |-> "injectFault", altitudeFault |-> altitudeFault,
                   airspeedFault |-> airspeedFault,
                   pressureFault |-> pressureFault]
  /\ UNCHANGED <<flightController_, faultHandler_, logger_, simulationTime_,
                 run_, now, pc>>

NextSensor == SP_Initialize \/ ProcessSensors \/ InjectFault

SpecSensor == Init /\ [][NextSensor]_vars

\* ------------------------------------------------------------------------
\* The envelope checks applied to a handler with an empty log, for readings
\* on and next to every threshold
\* ------------------------------------------------------------------------
EnvelopeAltitudes ==
  {D(0 - 501), D(0 - 500), D(0 - 1), D(0), D(15000), D(15001)}

EnvelopeAirspeeds == {D(0 - 1), D(0), D(50), D(51), D(300), D(301)}

EnvelopePressures == {D(99), D(100), D(1100), D(1101)}

EnvelopeSurfaces == {0 - 96, 0 - 95, 0, 95, 96, 97}

EnvelopeSensorHealth ==
  /\ Len(faultHandler_.faults_) = 0
  /\ \E altitude \in EnvelopeAltitudes, airspeed \in EnvelopeAirspeeds,
        pressure \in EnvelopePressures, sensorValid \in BOOLEAN :
       /\ faultHandler_' = checkSensorHealth(faultHandler_, altitude,
                                             airspeed, pressure, sensorValid,
                                             now)
       /\ call' = [op |-> "checkSensorHealth", altitude |-> altitude,
                   airspeed |-> airspeed, pressure |-> pressure,
                   sensorValid |-> sensorValid]
  /\ UNCHANGED <<flightController_, sensorProcessor_, logger_,
                 simulationTime_, run_, now, pc>>

EnvelopeControlSystem ==
  /\ Len(faultHandler_.faults_) = 0
  /\ \E elevator \in EnvelopeSurfaces, aileron \in EnvelopeSurfaces,
        rudder \in EnvelopeSurfaces :
       /\ faultHandler_' = checkControlSystem(faultHandler_, elevator,
                                              aileron, rudder, now)
       /\ call' = [op |-> "checkControlSystem", elevator |-> elevator,
                   aileron |-> aileron, rudder |-> rudder]
  /\ UNCHANGED <<flightController_, sensorProcessor_, logger_,
                 simulationTime_, run_, now, pc>>

NextEnvelope == EnvelopeSensorHealth \/ EnvelopeControlSystem

SpecEnvelope == Init /\ [][NextEnvelope]_vars

\* ========================================================================
\* Properties
\* ========================================================================
Phase == flightController_.currentPhase_

IsPrefix(s, t) == Len(s) <= Len(t) /\ SubSeq(t, 1, Len(s)) = s

\* the records a step appended to the fault log
Appended == SubSeq(faultHandler_.faults_', Len(faultHandler_.faults_) + 1,
                   Len(faultHandler_.faults_'))

CountEvent(event) ==
  Len(SelectSeq(logger_.eventFile_, LAMBDA e : e = event))

EmergencyEvent == "Emergency mode activated due to critical fault"

\* C1: at the end of every tick of the control loop, an unsafe aggregate
\* fault status implies that the current phase is EMERGENCY.
C1_EmergencyOverride ==
  (call.op = "tick" /\ ~isSystemSafe(faultHandler_)) => Phase = "EMERGENCY"

C1_Witness ==
  /\ call.op = "tick"
  /\ call.triggered
  /\ ~isSystemSafe(faultHandler_)
  /\ Phase = "EMERGENCY"

\* C2: once the phase is EMERGENCY, no update(), triggerEmergency() or
\* passage of time changes it; only initialize() leaves EMERGENCY.
C2_EmergencyAbsorbing ==
  [][(Phase = "EMERGENCY" /\ call'.op # "initialize")
       => Phase' = "EMERGENCY"]_vars

C2_Witness ==
  /\ call.op = "update"
  /\ Phase = "EMERGENCY"
  /\ now > flightController_.phaseStartTime_

\* C3: an update() call keeps the phase or moves it to the immediate
\* successor in the nominal sequence, and moves it only when the guard of
\* the source phase holds on the call's telemetry; LANDING and EMERGENCY
\* have no successor; triggerEmergency enters EMERGENCY from any phase.
NominalSequence ==
  <<"PREFLIGHT", "TAKEOFF", "CLIMB", "CRUISE", "DESCENT", "APPROACH",
    "LANDING">>

IsSuccessor(p, q) ==
  \E i \in 1..(Len(NominalSequence) - 1) :
    NominalSequence[i] = p /\ NominalSequence[i + 1] = q

\* the guard table: telemetry c, commanded throttle, dwell time in ms
TableGuard(p, c, throttle, dwell) ==
  \/ p = "PREFLIGHT" /\ c.airspeed > D(5) /\ throttle > 50
  \/ p = "TAKEOFF" /\ c.altitude > D(100) /\ c.verticalSpeed > D(2)
  \/ p = "CLIMB" /\ c.altitude > D(3000)
       /\ c.verticalSpeed < D(1) /\ c.verticalSpeed > D(0 - 1)
  \/ p = "CRUISE" /\ dwell > 60000 /\ c.verticalSpeed < D(0 - 1)
  \/ p = "DESCENT" /\ c.altitude < D(500) /\ c.airspeed < D(80)
  \/ p = "APPROACH" /\ c.altitude < D(50)

C3_GuardTable ==
  [][/\ call'.op = "update" =>
          \/ Phase' = Phase
          \/ /\ IsSuccessor(Phase, Phase')
             /\ TableGuard(Phase, call', flightController_.controls_.throttle,
                           now - flightController_.phaseStartTime_)
     /\ call'.op = "triggerEmergency" => Phase' = "EMERGENCY"
     /\ call'.op = "clock" => Phase' = Phase]_vars

C3_Witness ==
  /\ call.op = "update"
  /\ Phase = "DESCENT"
  /\ flightController_.previousPhase_ = "CRUISE"
  /\ flightController_.phaseStartTime_ = now

\* C4: isSystemSafe() is false exactly when the log holds an uncleared
\* CRITICAL or FATAL record: the counter criticalFaultCount_ equals
\* getFaultCount(CRITICAL) + getFaultCount(FATAL); reporting a WARNING or an
\* INFO never changes isSystemSafe().
C4_SafeIffNoCritical ==
  /\ [](/\ ~isSystemSafe(faultHandler_) <=>
             \E i \in 1..Len(faultHandler_.faults_) :
               /\ faultHandler_.faults_[i].severity \in {"CRITICAL", "FATAL"}
               /\ ~faultHandler_.faults_[i].resolved
        /\ faultHandler_.criticalFaultCount_ =
             getFaultCount(faultHandler_, "CRITICAL")
               + getFaultCount(faultHandler_, "FATAL"))
  /\ [][(call'.op = "reportFault" /\ call'.severity \in {"INFO", "WARNING"})
          => isSystemSafe(faultHandler_') = isSystemSafe(faultHandler_)]_vars

C4_Witness ==
  /\ call.op = "clearResolvedFaults"
  /\ ~isSystemSafe(faultHandler_)
  /\ \E i \in 1..Len(faultHandler_.faults_) :
       faultHandler_.faults_[i].severity = "FATAL"
  /\ \E i \in 1..Len(faultHandler_.faults_) :
       faultHandler_.faults_[i].severity = "WARNING"

\* C5: checkSensorHealth with sensorValid = false appends exactly one
\* record, a CRITICAL one, whatever the three readings are.
C5_InvalidOneCritical ==
  [][(call'.op = "checkSensorHealth" /\ ~call'.sensorValid)
       => /\ IsPrefix(faultHandler_.faults_, faultHandler_.faults_')
          /\ Len(Appended) = 1
          /\ Appended[1].severity = "CRITICAL"
          /\ faultHandler_.warningFaultCount_'
               = faultHandler_.warningFaultCount_]_vars

C5_Witness ==
  /\ call.op = "checkSensorHealth"
  /\ ~call.sensorValid
  /\ call.altitude < D(0 - 500)
  /\ call.airspeed > D(300)
  /\ call.pressure > D(1100)
  /\ Len(faultHandler_.faults_) >= 2
  /\ faultHandler_.faults_[Len(faultHandler_.faults_)].severity = "CRITICAL"

\* C6: for valid telemetry checkSensorHealth appends one WARNING per reading
\* outside its range (altitude [-500, 15000], airspeed [0, 300], pressure
\* [100, 1100]) and, independently, one FATAL record exactly when
\* altitude < 0 and airspeed > 50.
CountRecords(severity, component) ==
  Len(SelectSeq(faultHandler_.faults_,
                LAMBDA f : f.severity = severity /\ f.component = component))

One(b) == IF b THEN 1 ELSE 0

C6_FatalAndRangeWarnings ==
  (call.op = "checkSensorHealth" /\ call.sensorValid) =>
    LET altOut == call.altitude < D(0 - 500) \/ call.altitude > D(15000)
        spdOut == call.airspeed < D(0) \/ call.airspeed > D(300)
        prsOut == call.pressure < D(100) \/ call.pressure > D(1100)
        fatal == call.altitude < D(0) /\ call.airspeed > D(50)
    IN /\ CountRecords("WARNING", "AltitudeSensor") = One(altOut)
       /\ CountRecords("WARNING", "AirspeedSensor") = One(spdOut)
       /\ CountRecords("WARNING", "PressureSensor") = One(prsOut)
       /\ CountRecords("FATAL", "FlightSystem") = One(fatal)
       /\ Len(faultHandler_.faults_)
            = One(altOut) + One(spdOut) + One(prsOut) + One(fatal)

C6_Witness ==
  /\ call.op = "checkSensorHealth"
  /\ call.sensorValid
  /\ call.altitude = D(0 - 501)
  /\ call.airspeed = D(301)
  /\ call.pressure = D(99)
  /\ Len(faultHandler_.faults_) = 4
  /\ faultHandler_.faults_[4].severity = "FATAL"

\* C7: the row a tick passes to the logger carries the phase and the
\* controls the phase machine holds at the end of that tick.
C7_SnapshotAfterOverride ==
  (call.op = "tick" /\ logger_.telemetryOpen) =>
    /\ logger_.telemetryFile_.phase = Phase
    /\ logger_.telemetryFile_.controls = flightController_.controls_

\* C8: triggerEmergency is called, and the activation event logged, on the
\* first tick whose fault check leaves isSystemSafe() false and on no other
\* tick: the event file holds the event once while the system is unsafe and
\* not at all while it is safe.
C8_EmergencyOnce ==
  /\ [](logger_.eventOpen =>
          CountEvent(EmergencyEvent)
            = IF isSystemSafe(faultHandler_) THEN 0 ELSE 1)
  /\ [][call'.op = "tick" =>
          (call'.triggered <=>
             (isSystemSafe(faultHandler_) /\ ~isSystemSafe(faultHandler_')))]_vars

C8_Witness ==
  /\ call.op = "tick"
  /\ ~call.triggered
  /\ ~call.sensors.valid
  /\ ~isSystemSafe(faultHandler_)
  /\ Len(faultHandler_.faults_) >= 2
  /\ CountEvent(EmergencyEvent) = 1

\* C9: triggerEmergency called while the phase is EMERGENCY leaves the
\* phase, the control surfaces and the dwell clock unchanged.
C9_TriggerIdempotent ==
  [][(call'.op = "triggerEmergency" /\ Phase = "EMERGENCY")
       => /\ Phase' = Phase
          /\ flightController_.controls_' = flightController_.controls_
          /\ flightController_.phaseStartTime_'
               = flightController_.phaseStartTime_]_vars

\* C10: with the airspeed fault injected, the next sample is invalid, the
\* fault check of that tick appends a CRITICAL record and isSystemSafe()
\* is false; no tick removes a record, and once isSystemSafe() is false it
\* is false after every later tick, also when the fault has been cleared.
C10_InjectedFaultPersists ==
  [][call'.op = "tick" =>
       /\ sensorProcessor_.airspeedFault_ =>
            /\ ~call'.sensors.valid
            /\ Len(Appended) = 1
            /\ Appended[1].severity = "CRITICAL"
            /\ ~isSystemSafe(faultHandler_')
       /\ IsPrefix(faultHandler_.faults_, faultHandler_.faults_')
       /\ ~isSystemSafe(faultHandler_) => ~isSystemSafe(faultHandler_')]_vars

C10_Witness ==
  /\ call.op = "tick"
  /\ simulationTime_ > CLEAR_TIME + 2000
  /\ areSensorsHealthy(sensorProcessor_)
  /\ call.sensors.valid
  /\ ~isSystemSafe(faultHandler_)
  /\ faultHandler_.criticalFaultCount_ = 5
  /\ faultHandler_.faults_[1].severity = "CRITICAL"

\* C11: in every state the elevator, aileron and rudder are in [-1.0, 1.0]
\* and the throttle is in [0.0, 1.0].
C11_SurfacesInRange ==
  LET c == flightController_.controls_
  IN /\ c.elevator >= 0 - 100 /\ c.elevator <= 100
     /\ c.aileron >= 0 - 100 /\ c.aileron <= 100
     /\ c.rudder >= 0 - 100 /\ c.rudder <= 100
     /\ c.throttle >= 0 /\ c.throttle <= 100

C11_Witness ==
  /\ call.op = "update"
  /\ Phase = "LANDING"
  /\ flightController_.controls_.elevator = 0 - 10
  /\ flightController_.controls_.throttle = 10

\* C12: after every update() the throttle and the elevator are the fixed
\* targets of the phase that is current after the call, whatever the
\* telemetry; aileron and rudder keep their value.
ClaimedTargets ==
  [PREFLIGHT |-> <<0, 0>>, TAKEOFF |-> <<100, 15>>, CLIMB |-> <<90, 10>>,
   CRUISE |-> <<70, 0>>, DESCENT |-> <<40, 0 - 5>>,
   APPROACH |-> <<30, 0 - 8>>, LANDING |-> <<10, 0 - 10>>,
   EMERGENCY |-> <<50, 0>>]

C12_ControlLaw ==
  [][call'.op = "update" =>
       /\ flightController_.controls_'.throttle = ClaimedTargets[Phase'][1]
       /\ flightController_.controls_'.elevator = ClaimedTargets[Phase'][2]
       /\ flightController_.controls_'.aileron
            = flightController_.controls_.aileron
       /\ flightController_.controls_'.rudder
            = flightController_.controls_.rudder]_vars

C12_Witness ==
  /\ call.op = "update"
  /\ Phase = "CLIMB"
  /\ flightController_.previousPhase_ = "TAKEOFF"
  /\ flightController_.phaseStartTime_ = now
  /\ flightController_.controls_.throttle = 90
  /\ flightController_.controls_.elevator = 10

\* C13: a fault check repeated on the same arguments, with no other call in
\* between, appends the records of the first application once more (each
\* with its own timestamp) and advances the counters by the same amounts.
Untimed(records) ==
  [i \in 1..Len(records) |->
     [severity |-> records[i].severity, component |-> records[i].component,
      description |-> records[i].description,
      resolved |-> records[i].resolved]]

CountSeverities(records, severities) ==
  Len(SelectSeq(records, LAMBDA f : f.severity \in severities))

SameArguments(c1, c2) ==
  /\ c1.op = c2.op
  /\ \/ /\ c1.op = "checkSensorHealth"
        /\ c1.altitude = c2.altitude /\ c1.airspeed = c2.airspeed
        /\ c1.pressure = c2.pressure /\ c1.sensorValid = c2.sensorValid
     \/ /\ c1.op = "checkControlSystem"
        /\ c1.elevator = c2.elevator /\ c1.aileron = c2.aileron
        /\ c1.rudder = c2.rudder

C13_ChecksNotDeduplicated ==
  [][SameArguments(call, call') =>
       LET first == SubSeq(faultHandler_.faults_, call.before + 1,
                           Len(faultHandler_.faults_))
       IN /\ call'.before = Len(faultHandler_.faults_)
          /\ IsPrefix(faultHandler_.faults_, faultHandler_.faults_')
          /\ Untimed(Appended) = Untimed(first)
          /\ Len(faultHandler_.faults_')
               = call.before + 2 * Len(first)
          /\ faultHandler_.criticalFaultCount_'
               = faultHandler_.criticalFaultCount_
                   + CountSeverities(first, {"CRITICAL", "FATAL"})
          /\ faultHandler_.warningFaultCount_'
               = faultHandler_.warningFaultCount_
                   + CountSeverities(first, {"WARNING"})]_vars

C13_Witness ==
  /\ call.op = "checkSensorHealth"
  /\ call.sensorValid
  /\ call.before = 1
  /\ Len(faultHandler_.faults_) = 2
  /\ faultHandler_.faults_[1].severity = "FATAL"
  /\ faultHandler_.faults_[2].severity = "FATAL"
  /\ faultHandler_.criticalFaultCount_ = 2

\* C14: no record of the log is ever marked resolved; every FaultHandler
\* operation other than initialize leaves the old log as a prefix of the new
\* one, so the number of active faults never decreases; and
\* clearResolvedFaults changes nothing.
C14_NoneResolved ==
  \A i \in 1..Len(faultHandler_.faults_) : ~faultHandler_.faults_[i].resolved

C14_LogAppendOnly ==
  /\ []C14_NoneResolved
  /\ [][call'.op # "initialize" =>
          /\ IsPrefix(faultHandler_.faults_, faultHandler_.faults_')
          /\ Len(getActiveFaults(faultHandler_'))
               >= Len(getActiveFaults(faultHandler_))]_vars
  /\ [][call'.op = "clearResolvedFaults" =>
          faultHandler_' = faultHandler_]_vars

C14_Witness ==
  /\ call.op = "clearResolvedFaults"
  /\ Len(faultHandler_.faults_) = 3
  /\ Len(getActiveFaults(faultHandler_)) = 3

\* C18: checkControlSystem on an empty log leaves one WARNING per axis whose
\* magnitude is above 0.95, tagged with that axis's component, and nothing
\* else; a magnitude of exactly 0.95 leaves none.
C18_PerAxisStrictThreshold ==
  call.op = "checkControlSystem" =>
    LET e == One(Abs(call.elevator) > 95)
        a == One(Abs(call.aileron) > 95)
        r == One(Abs(call.rudder) > 95)
    IN /\ CountRecords("WARNING", "ElevatorControl") = e
       /\ CountRecords("WARNING", "AileronControl") = a
       /\ CountRecords("WARNING", "RudderControl") = r
       /\ Len(faultHandler_.faults_) = e + a + r
       /\ faultHandler_.warningFaultCount_ = e + a + r
       /\ faultHandler_.criticalFaultCount_ = 0

C18_Witness ==
  /\ call.op = "checkControlSystem"
  /\ call.elevator = 97 /\ call.aileron = 0 - 95 /\ call.rudder = 0
  /\ Len(faultHandler_.faults_) = 1
  /\ faultHandler_.faults_[1].severity = "WARNING"
  /\ faultHandler_.faults_[1].component = "ElevatorControl"

\* C19: the fault checks of a tick, whatever they record, leave the
\* controller alone: the controller after a tick is the one update() left,
\* or that one after the loop's triggerEmergency call when the loop made it.
C19_FaultsLeaveControllerAlone ==
  [][call'.op = "tick" =>
       LET s == call'.sensors
           u == update(flightController_, s.altitude, s.airspeed,
                       s.verticalSpeed, now)
       IN flightController_' =
            IF call'.triggered THEN triggerEmergency(u, now) ELSE u]_vars

\* a tick whose fault check recorded a CRITICAL fault and in which the loop
\* did not call triggerEmergency
C19_Witness ==
  /\ call.op = "tick"
  /\ ~call.triggered
  /\ Len(faultHandler_.faults_) >= 2
  /\ LET last == faultHandler_.faults_[Len(faultHandler_.faults_)]
     IN last.severity = "CRITICAL" /\ last.timestamp = now - run_.dt
  /\ Phase = "EMERGENCY"
  /\ flightController_.previousPhase_ = "PREFLIGHT"

\* C20: the valid flag of every processSensors result is true iff none of
\* the three fault flags is set when the sample is taken, and it equals
\* areSensorsHealthy() at that moment; injectFault sets the three flags to
\* its arguments and leaves the filter histories alone, and the sample taken
\* after it is the first to show the fault: its raw altitude and airspeed
\* are the sentinel exactly on the faulted channels.
C20_ValidIffNoFlag ==
  /\ [][call'.op = "processSensors" =>
          LET sp == sensorProcessor_
              ah == sensorProcessor_'.altitudeHistory_
              sh == sensorProcessor_'.airspeedHistory_
          IN /\ call'.data.valid
                  <=> (~sp.altitudeFault_ /\ ~sp.airspeedFault_
                         /\ ~sp.pressureFault_)
             /\ call'.data.valid = areSensorsHealthy(sp)
             /\ call'.data.valid = areSensorsHealthy(sensorProcessor_')
             /\ (ah[Len(ah)] = Sentinel) <=> sp.altitudeFault_
             /\ (sh[Len(sh)] = Sentinel) <=> sp.airspeedFault_
             /\ (call'.data.pressure = D(Sentinel)) <=> sp.pressureFault_]_vars
  /\ [][call'.op = "injectFault" =>
          /\ sensorProcessor_'.altitudeHistory_
               = sensorProcessor_.altitudeHistory_
          /\ sensorProcessor_'.airspeedHistory_
               = sensorProcessor_.airspeedHistory_
          /\ sensorProcessor_'.altitudeFault_ = call'.altitudeFault
          /\ sensorProcessor_'.airspeedFault_ = call'.airspeedFault
          /\ sensorProcessor_'.pressureFault_ = call'.pressureFault]_vars

\* the second sample, taken with only the airspeed flag set, after a first
\* sample taken with no flag set
C20_Witness ==
  /\ call.op = "processSensors"
  /\ ~call.data.valid
  /\ sensorProcessor_.airspeedFault_
  /\ ~sensorProcessor_.altitudeFault_ /\ ~sensorProcessor_.pressureFault_
  /\ sensorProcessor_.airspeedHistory_ = <<100, Sentinel>>
  /\ sensorProcessor_.altitudeHistory_ = <<3000, 3000>>

\* C16: the loop runs its ticks at simulated times 0, dt, 2dt, ..., and ends
\* at the first of these times that is >= duration: every run that has
\* started completes, after a number of ticks that depends on duration and
\* dt alone, whether or not faults were reported or EMERGENCY was entered.
TicksOf(duration, dt) == (duration + dt - 1) \div dt

C16_TickTimes ==
  pc \in {"running", "completed", "shutdown"} =>
    /\ simulationTime_ = run_.iterationCount * run_.dt
    /\ run_.iterationCount <= TicksOf(run_.duration, run_.dt)
    /\ run_.iterationCount > 0 =>
         logger_.telemetryFile_.simulationTime = simulationTime_ - run_.dt

C16_EndsAtFirstBoundary ==
  pc \in {"completed", "shutdown"} =>
    /\ simulationTime_ >= run_.duration
    /\ simulationTime_ - run_.dt < run_.duration
    /\ run_.iterationCount = TicksOf(run_.duration, run_.dt)

C15_CancellationBetweenTicks ==
  pc = "exited" => call.position = "head"

\* C21: the rate run() is called with is a number in [1, 100]; it is the
\* default when the argument is absent, is rejected by std::stod or is not
\* in [1, 100]; and parsing the command line reports no fault.
RateAccepted(argument) ==
  /\ argument.kind = "number"
  /\ argument.value >= UPDATE_RATE_MIN
  /\ argument.value <= UPDATE_RATE_MAX

C21_RateInRange ==
  pc # "main" =>
    /\ ~run_.notANumber
    /\ run_.updateRate >= UPDATE_RATE_MIN
    /\ run_.updateRate <= UPDATE_RATE_MAX
    /\ run_.updateRate = IF RateAccepted(run_.argument)
                           THEN run_.argument.value
                           ELSE DEFAULT_UPDATE_RATE
    /\ pc \in {"constructed", "initialized", "failed"}
         => Len(faultHandler_.faults_) = 0

\* C22: after the k-th sample of a channel the history is the last
\* min(k, 5) raw samples in arrival order, never longer than 5, and
\* applyFilter has returned the arithmetic mean of exactly those samples.
LastSamples(samples, n) == SubSeq(samples, Len(samples) - n + 1, Len(samples))

Min(a, b) == IF a < b THEN a ELSE b

C22_WindowHoldsLastSamples ==
  LET history == sensorProcessor_.altitudeHistory_
      k == Len(call.samples)
  IN /\ Len(history) <= FILTER_WINDOW_SIZE
     /\ history = LastSamples(call.samples, Min(k, FILTER_WINDOW_SIZE))
     /\ call.op = "applyFilter" =>
          call.filtered * Len(history) = D(SumSeq(history))

C22_Witness ==
  /\ call.op = "applyFilter"
  /\ call.samples = <<Sentinel, 3000, 0, 0, 3000, 3000, 0>>
  /\ sensorProcessor_.altitudeHistory_ = <<0, 0, 3000, 3000, 0>>
  /\ call.filtered = D(1200)

\* C23: once the last FILTER_WINDOW_SIZE samples fed to the filter are one
\* value V, applyFilter returns exactly V.
C23_ConstantInputExact ==
  LET history == sensorProcessor_.altitudeHistory_
  IN (/\ call.op = "applyFilter"
      /\ Len(history) = FILTER_WINDOW_SIZE
      /\ \A i \in 1..Len(history) : history[i] = history[1])
       => call.filtered = history[1]

\* C24: the verticalSpeed of a sample is the filtered altitude of the sample
\* minus the filtered altitude of the previous sample, times the loop's
\* update rate; it is 0 for the first sample of a run.
C24_VerticalSpeedOfFiltered ==
  /\ [][(call.op = "run" /\ call'.op = "tick")
          => call'.sensors.verticalSpeed = 0]_vars
  /\ [][(call.op = "tick" /\ call'.op = "tick")
          => call'.sensors.verticalSpeed
               = (call'.sensors.altitude - call.sensors.altitude)
                   * run_.updateRate]_vars

C26_TakeoffUnreachable ==
  /\ Phase \in {"PREFLIGHT", "EMERGENCY"}
  /\ flightController_.previousPhase_ = "PREFLIGHT"
  /\ Phase = "PREFLIGHT" => flightController_.controls_.throttle = 0

\* a tick after which the filtered airspeed is above 5.0 and the phase is
\* still PREFLIGHT
C26_Witness ==
  /\ call.op = "tick"
  /\ call.sensors.valid
  /\ call.sensors.airspeed > D(5)
  /\ Phase = "PREFLIGHT"
  /\ simulationTime_ > GROUND_PHASE_END

\* C27: the k-th sample after the airspeed fault is cleared, for k = 1..4, is
\* valid but its airspeed window still holds 5 - k sentinels, its filtered
\* airspeed is below 0, and checkSensorHealth appends an AirspeedSensor
\* WARNING on that tick; from the 5th sample on the window holds no sentinel
\* and the tick appends nothing.
CountSentinels(history) == Len(SelectSeq(history, LAMBDA v : v = Sentinel))

RecordsAt(t) == SelectSeq(faultHandler_.faults_, LAMBDA f : f.timestamp = t)

C27_SentinelsOutliveFault ==
  LET tickTime == simulationTime_ - run_.dt
      k == (tickTime - CLEAR_TIME) \div run_.dt
      appended == RecordsAt(now - run_.dt)
  IN (call.op = "tick" /\ tickTime > CLEAR_TIME) =>
       /\ call.sensors.valid
       /\ IF k < FILTER_WINDOW_SIZE
            THEN /\ CountSentinels(sensorProcessor_.airspeedHistory_)
                      = FILTER_WINDOW_SIZE - k
                 /\ call.sensors.airspeed < 0
                 /\ Len(appended) = 1
                 /\ appended[1].severity = "WARNING"
                 /\ appended[1].component = "AirspeedSensor"
            ELSE /\ CountSentinels(sensorProcessor_.airspeedHistory_) = 0
                 /\ call.sensors.airspeed = D(100)
                 /\ appended = << >>

\* the 4th sample after clearing: one sentinel left in the window
C27_Witness ==
  /\ call.op = "tick"
  /\ simulationTime_ - run_.dt = CLEAR_TIME + 4 * run_.dt
  /\ call.sensors.valid
  /\ sensorProcessor_.airspeedHistory_ = <<Sentinel, 100, 100, 100, 100>>
  /\ call.sensors.airspeed < 0
  /\ faultHandler_.faults_[Len(faultHandler_.faults_)].component
       = "AirspeedSensor"

\* C28: in a run every raw altitude sample is >= 0, so every filtered
\* altitude is >= 0 and no FATAL record is in the log: the critical count is
\* the number of CRITICAL invalid-sensor records.
C28_NoFatalInRun ==
  /\ \A i \in 1..Len(sensorProcessor_.altitudeHistory_) :
       sensorProcessor_.altitudeHistory_[i] >= 0
  /\ ~sensorProcessor_.altitudeFault_
  /\ call.op = "tick" => call.sensors.altitude >= 0
  /\ getFaultCount(faultHandler_, "FATAL") = 0
  /\ faultHandler_.criticalFaultCount_
       = CountRecords("CRITICAL", "SensorProcessor")

\* a tick with the fault cleared and five CRITICAL records in the log, whose
\* filtered airspeed is above 50 and whose filtered altitude is not negative
C28_Witness ==
  /\ call.op = "tick"
  /\ call.sensors.valid
  /\ call.sensors.airspeed > D(50)
  /\ call.sensors.altitude >= 0
  /\ ~isSystemSafe(faultHandler_)
  /\ CountRecords("CRITICAL", "SensorProcessor") = 5

SensorHealthComponents ==
  {"SensorProcessor", "AltitudeSensor", "AirspeedSensor", "PressureSensor",
   "FlightSystem"}

\* C29: in a run aileron and rudder are 0 and |elevator| <= 0.15, so
\* checkControlSystem leaves the handler as it is and every record of the
\* log has a component that checkSensorHealth reports.
C29_ControlCheckSilent ==
  LET c == flightController_.controls_
  IN /\ c.aileron = 0
     /\ c.rudder = 0
     /\ Abs(c.elevator) <= 15
     /\ checkControlSystem(faultHandler_, c.elevator, c.aileron, c.rudder,
                           now) = faultHandler_
     /\ \A i \in 1..Len(faultHandler_.faults_) :
          faultHandler_.faults_[i].component \in SensorHealthComponents

\* a tick in EMERGENCY with records in the log
C29_Witness ==
  /\ call.op = "tick"
  /\ flightController_.currentPhase_ = "EMERGENCY"
  /\ Len(faultHandler_.faults_) > 0
  /\ \A i \in 1..Len(faultHandler_.faults_) :
       faultHandler_.faults_[i].component \in SensorHealthComponents

====
